---------------------------- MODULE Spec2Model ----------------------------
(***************************************************************************)
(* A model of deep_semantic_similarity_keras.py: the DSSM computation      *)
(* graph (query branch, weight-tied document branch, cosine similarity,    *)
(* learned-gamma softmax head), the random data set with its negative      *)
(* sampling, the training loop and the two inference-extraction calls.     *)
(*                                                                         *)
(* Numbers are integers.  Activations and weights are small integers, tanh *)
(* is the odd, monotone, saturating quantisation Tanh, the cosine is kept  *)
(* in fixed point at scale FP, exp is the power of two at resolution       *)
(* 2^-ExpBias, and the probability is the exact fraction num/den.  Every   *)
(* array of the script has batch size 1, so the batch axis is left out.    *)
(***************************************************************************)
EXTENDS Integers, Sequences, FiniteSets, TLC

(***************************************************************************)
(* Sizes.  The script's values are far beyond what a model checker can     *)
(* enumerate; the definitions below keep the script's names and are the    *)
(* bounds of the model (script: WORD_DEPTH = 3 * 30000, K = 300, L = 128,  *)
(* J = 4, sample_size = 10).                                               *)
(***************************************************************************)
WORD_DEPTH == 2
K == 2
L == 2
J == 2
sample_size == 3

\* Longest sequence (time steps) of a generated query or document.
MaxT == 2
\* Saturation level of the quantised tanh.
TanhMax == 2
\* Fixed-point scale of the cosine similarity.
FP == 4
\* Resolution of the quantised exponential: Exp(z) = 2^(z + ExpBias).
ExpBias == 4
\* Largest absolute value a weight entry can take (the optimizer saturates).
WMax == 2
\* Longest log of inference calls kept by the inference specification.
MaxCalls == 3
\* Largest absolute value of a rescaled score drawn for the ranking head.
ZMax == 5

\* The not-a-number value a division 0/0 produces.
NaN == 0 - 1048576

VARIABLES
  pc,         \* position of the script / of the experiment
  graph,      \* the computation graph: node id -> [op, layer, inputs]
  weights,    \* layer instance -> [W, b], the trainable tensors
  created,    \* layer instance -> number of times its tensors were created
  nb_updates, \* number of optimizer steps taken so far
  l_Qs,       \* the generated queries
  pos_l_Ds,   \* the generated positive documents
  neg_l_Ds,   \* per example, the list of J negative documents
  i,          \* the running loop index (0-based, as in the script)
  calls,      \* log of the calls made: fit and the inference functions
  history,    \* what the last model.fit returned
  returned,   \* what each inference call returned, in call order
  feed,       \* inputs of a forward-pass experiment
  feed2,      \* inputs of the second run of a two-run experiment
  run,        \* node values of the evaluation on feed
  run2        \* node values of the evaluation on feed2

vars == <<pc, graph, weights, created, nb_updates, l_Qs, pos_l_Ds, neg_l_Ds,
          i, calls, history, returned, feed, feed2, run, run2>>

----------------------------------------------------------------------------
(* Arithmetic helpers.                                                     *)

RECURSIVE MkSeq(_, _)
\* The sequence <<Op(1), ..., Op(n)>>, element by element.
MkSeq(Op(_), n) == IF n = 0 THEN <<>> ELSE Append(MkSeq(Op, n - 1), Op(n))

RECURSIVE SumTo(_, _)
\* f[1] + ... + f[n]
SumTo(f, n) == IF n = 0 THEN 0 ELSE f[n] + SumTo(f, n - 1)

RECURSIVE DotTo(_, _, _)
DotTo(x, y, d) == IF d = 0 THEN 0 ELSE x[d] * y[d] + DotTo(x, y, d - 1)

Dot(x, y) == DotTo(x, y, Len(x))

RECURSIVE IsqrtIn(_, _, _)
\* The integer square root of n, known to lie in lo..hi.
IsqrtIn(n, lo, hi) ==
  IF lo = hi THEN lo
  ELSE LET mid == (lo + hi + 1) \div 2
       IN  IF mid * mid > n THEN IsqrtIn(n, lo, mid - 1) ELSE IsqrtIn(n, mid, hi)

\* The integer square root of n >= 0.
Isqrt(n) == IsqrtIn(n, 0, n)

\* The square of the Euclidean norm x.norm(2).
Norm2(x) == Dot(x, x)

Clamp(z, m) == IF z > m THEN m ELSE IF z < 0 - m THEN 0 - m ELSE z

\* activation = "tanh": odd, monotone, saturating.
Tanh(z) == Clamp(z, TanhMax)

RECURSIVE AffineTo(_, _, _, _)
\* x[1] * W[1][k] + ... + x[d] * W[d][k] + b[k]
AffineTo(x, wt, k, d) ==
  IF d = 0 THEN wt.b[k] ELSE x[d] * wt.W[d][k] + AffineTo(x, wt, k, d - 1)

\* Column k of x . W + b, for one vector x (W: Len(x) rows, Len(b) columns).
Affine(x, wt, k) == AffineTo(x, wt, k, Len(x))

----------------------------------------------------------------------------
(* The layers' computations.                                               *)

\* Convolution1D(K, FILTER_LENGTH = 1, border_mode = "same", tanh): the same
\* weight matrix applied to every time step; the output has as many steps
\* as the input.
Convolution1D(x, wt) ==
  MkSeq(LAMBDA t : MkSeq(LAMBDA k : Tanh(Affine(x[t], wt, k)), Len(wt.b)), Len(x))

RECURSIVE MaxFrom(_, _, _)
\* running element-wise maximum of h[t..T] and acc
MaxFrom(h, t, acc) ==
  IF t > Len(h) THEN acc
  ELSE MaxFrom(h, t + 1,
               MkSeq(LAMBDA k : IF h[t][k] > acc[k] THEN h[t][k] ELSE acc[k], Len(acc)))

\* Faulty variant of MaxOverTime: the last time step instead of the maximum.
MaxOverTime_last(h) == h[Len(h)]

\* lambda x: x.max(axis = 1): maximum over the time axis (T >= 1).
MaxOverTime(h) == MaxFrom(h, 2, h[1])

\* Dense(L, activation = "tanh")
Dense(v, wt) == MkSeq(LAMBDA k : Tanh(Affine(v, wt, k)), Len(wt.b))

\* R(vects): dot(x, y^T) / (x.norm(2) * y.norm(2)), at fixed-point scale FP
\* and truncated toward zero: FP * |dot| / sqrt(|x|^2 * |y|^2) with the sign
\* of dot; 0/0 is NaN.
R(x, y) ==
  LET num == Dot(x, y)
      den2 == Norm2(x) * Norm2(y)
  IN  IF den2 = 0 THEN NaN
      ELSE LET q == Isqrt((FP * FP * num * num) \div den2)
           IN  IF num < 0 THEN 0 - q ELSE q

\* merge(..., mode = "concat") followed by Reshape((J + 1, 1)): the list of
\* scalars in the order given.
Concat(rs) == rs

\* Convolution1D(1, 1, activation = "linear") on the (J + 1, 1) tensor: one
\* weight and one bias applied to every element.
GammaConv(rs, wt) ==
  MkSeq(LAMBDA t : IF rs[t] = NaN THEN NaN ELSE wt.W[1][1] * rs[t] + wt.b[1], Len(rs))

\* backend.exp, element by element; underflows to 0 below the resolution.
Exp(z) == IF z = NaN THEN NaN ELSE IF z + ExpBias < 0 THEN 0 ELSE 2 ^ (z + ExpBias)

Exponentiate(zs) == MkSeq(LAMBDA t : Exp(zs[t]), Len(zs))

\* Faulty variant of ProbOf: the sum leaves out the positive document.
ProbOf_negatives(es) ==
  LET s == SumTo(es, Len(es)) - es[1]
  IN  IF (\E t \in 1..Len(es) : es[t] = NaN) \/ s = 0
      THEN [num |-> NaN, den |-> NaN]
      ELSE [num |-> es[1], den |-> s]

\* lambda x: x[0][0] / backend.sum(x[0]), as the fraction num/den.
ProbOf(es) ==
  LET s == SumTo(es, Len(es))
  IN  IF (\E t \in 1..Len(es) : es[t] = NaN) \/ s = 0
      THEN [num |-> NaN, den |-> NaN]
      ELSE [num |-> es[1], den |-> s]

----------------------------------------------------------------------------
(* The computation graph, node by node as the script builds it.  A node id *)
(* is <<name, j>>: j = 0 for a single tensor, j in 1..J for the j-th entry *)
(* of a list.  A layer instance is named the same way.                     *)

NoLayer == <<"none", 0>>
Node(op, layer, ins) == [op |-> op, layer |-> layer, inputs |-> ins]

\* The layer instances the script creates.
query_conv_layer == <<"query_conv", 0>>
query_sem_layer == <<"query_sem", 0>>
doc_conv == <<"doc_conv", 0>>
doc_sem == <<"doc_sem", 0>>
gamma_layer == <<"with_gamma", 0>>

query == Node("Input", NoLayer, <<>>)
pos_doc == Node("Input", NoLayer, <<>>)
neg_docs(j) == Node("Input", NoLayer, <<>>)

query_conv == Node("Convolution1D", query_conv_layer, << <<"query", 0>> >>)
query_max == Node("Max", NoLayer, << <<"query_conv", 0>> >>)
query_sem == Node("Dense", query_sem_layer, << <<"query_max", 0>> >>)

pos_doc_conv == Node("Convolution1D", doc_conv, << <<"pos_doc", 0>> >>)
\* Faulty variant of neg_doc_convs: a convolution layer of its own for every
\* negative document instead of the shared doc_conv.
neg_doc_convs_untied(j) == Node("Convolution1D", <<"doc_conv", j>>, << <<"neg_docs", j>> >>)
neg_doc_convs(j) == Node("Convolution1D", doc_conv, << <<"neg_docs", j>> >>)

pos_doc_max == Node("Max", NoLayer, << <<"pos_doc_conv", 0>> >>)
neg_doc_maxes(j) == Node("Max", NoLayer, << <<"neg_doc_convs", j>> >>)

pos_doc_sem == Node("Dense", doc_sem, << <<"pos_doc_max", 0>> >>)
neg_doc_sems(j) == Node("Dense", doc_sem, << <<"neg_doc_maxes", j>> >>)

\* Faulty variant of R_Q_D_p: computed from the first negative document.
R_Q_D_p_negative == Node("R", NoLayer, << <<"query_sem", 0>>, <<"neg_doc_sems", 1>> >>)
R_Q_D_p == Node("R", NoLayer, << <<"query_sem", 0>>, <<"pos_doc_sem", 0>> >>)
\* Faulty variant of R_Q_D_ns: every entry is computed from the first
\* negative document.
R_Q_D_ns_first(j) == Node("R", NoLayer, << <<"query_sem", 0>>, <<"neg_doc_sems", 1>> >>)
R_Q_D_ns(j) == Node("R", NoLayer, << <<"query_sem", 0>>, <<"neg_doc_sems", j>> >>)

concat_Rs ==
  Node("concat", NoLayer,
       << <<"R_Q_D_p", 0>> >> \o MkSeq(LAMBDA j : <<"R_Q_D_ns", j>>, J))
with_gamma == Node("Gamma", gamma_layer, << <<"concat_Rs", 0>> >>)
exponentiated == Node("exp", NoLayer, << <<"with_gamma", 0>> >>)
prob == Node("prob", NoLayer, << <<"exponentiated", 0>> >>)

ListIds(name) == MkSeq(LAMBDA j : <<name, j>>, J)

\* The nodes in the order the script creates them (a topological order).
NodeOrder ==
  << <<"query", 0>>, <<"pos_doc", 0>> >> \o ListIds("neg_docs")
  \o << <<"query_conv", 0>>, <<"query_max", 0>>, <<"query_sem", 0>>,
        <<"pos_doc_conv", 0>> >> \o ListIds("neg_doc_convs")
  \o << <<"pos_doc_max", 0>> >> \o ListIds("neg_doc_maxes")
  \o << <<"pos_doc_sem", 0>> >> \o ListIds("neg_doc_sems")
  \o << <<"R_Q_D_p", 0>> >> \o ListIds("R_Q_D_ns")
  \o << <<"concat_Rs", 0>>, <<"with_gamma", 0>>, <<"exponentiated", 0>>,
        <<"prob", 0>> >>

NodeIds == {NodeOrder[n] : n \in 1..Len(NodeOrder)}

NodeAt(id) ==
  CASE id[1] = "query" -> query
    [] id[1] = "pos_doc" -> pos_doc
    [] id[1] = "neg_docs" -> neg_docs(id[2])
    [] id[1] = "query_conv" -> query_conv
    [] id[1] = "query_max" -> query_max
    [] id[1] = "query_sem" -> query_sem
    [] id[1] = "pos_doc_conv" -> pos_doc_conv
    [] id[1] = "neg_doc_convs" -> neg_doc_convs(id[2])
    [] id[1] = "pos_doc_max" -> pos_doc_max
    [] id[1] = "neg_doc_maxes" -> neg_doc_maxes(id[2])
    [] id[1] = "pos_doc_sem" -> pos_doc_sem
    [] id[1] = "neg_doc_sems" -> neg_doc_sems(id[2])
    [] id[1] = "R_Q_D_p" -> R_Q_D_p
    [] id[1] = "R_Q_D_ns" -> R_Q_D_ns(id[2])
    [] id[1] = "concat_Rs" -> concat_Rs
    [] id[1] = "with_gamma" -> with_gamma
    [] id[1] = "exponentiated" -> exponentiated
    [] id[1] = "prob" -> prob

\* The graph after line 108.
Graph == [id \in NodeIds |-> NodeAt(id)]

\* The layer instances that own weights in graph g.
LayersOf(g) == {g[id].layer : id \in DOMAIN g} \ {NoLayer}


----------------------------------------------------------------------------
(* Evaluation of the graph.                                                *)

\* The value of node nd from the values of its inputs.
ApplyNode(nd, args, w) ==
  CASE nd.op = "Convolution1D" -> Convolution1D(args[1], w[nd.layer])
    [] nd.op = "Max" -> MaxOverTime(args[1])
    [] nd.op = "Dense" -> Dense(args[1], w[nd.layer])
    [] nd.op = "R" -> R(args[1], args[2])
    [] nd.op = "concat" -> Concat(args)
    [] nd.op = "Gamma" -> GammaConv(args[1], w[nd.layer])
    [] nd.op = "exp" -> Exponentiate(args[1])
    [] nd.op = "prob" -> ProbOf(args[1])

RECURSIVE EvalFrom(_, _, _, _, _, _)
\* The values of order[n..], added to vals, in creation order.
EvalFrom(g, w, fd, order, n, vals) ==
  IF n > Len(order) THEN vals
  ELSE LET id == order[n]
           nd == g[id]
           v  == IF nd.op = "Input" THEN fd[id]
                 ELSE ApplyNode(nd, MkSeq(LAMBDA k : vals[nd.inputs[k]], Len(nd.inputs)), w)
       IN  EvalFrom(g, w, fd, order, n + 1, vals @@ (id :> v))

RECURSIVE Ancestors(_, _)
\* The nodes the value of node id depends on, id included.
Ancestors(g, id) ==
  {id} \cup UNION {Ancestors(g, g[id].inputs[k]) : k \in 1..Len(g[id].inputs)}

\* The input placeholders the nodes outs depend on.
InputsNeeded(g, outs) ==
  {id \in UNION {Ancestors(g, o) : o \in outs} : g[id].op = "Input"}

\* backend.function(inputs, outputs) applied to the feed fd: only the
\* subgraph under outs is evaluated.
EvalSubgraph(g, w, fd, outs) ==
  LET need == UNION {Ancestors(g, o) : o \in outs}
      order == SelectSeq(NodeOrder, LAMBDA id : id \in need)
  IN  EvalFrom(g, w, fd, order, 1, <<>>)

\* The full forward pass of model (every node up to prob).
Forward(g, w, fd) == EvalSubgraph(g, w, fd, {<<"prob", 0>>})

\* Model(input = [query, pos_doc] + neg_docs, ...): the arrays of a call are
\* bound to the placeholders by position.
ModelInputs == << <<"query", 0>>, <<"pos_doc", 0>> >> \o ListIds("neg_docs")

FeedOf(placeholders, arrays) ==
  [id \in {placeholders[n] : n \in 1..Len(placeholders)} |->
     arrays[CHOOSE n \in 1..Len(placeholders) : placeholders[n] = id]]

----------------------------------------------------------------------------
(* Weights.                                                                *)

\* Outcomes of the random kernel initializer, and of one optimizer step
\* (the sign of the step taken on every entry).
InitDraws == {0}
OptimizerSteps == {0 - 1, 1}

\* (rows, columns) of the kernel of layer ly: Convolution1D(K, ...) on
\* WORD_DEPTH features, Dense(L) on K features, Convolution1D(1, 1) on 1.
ShapeOf(g, ly) ==
  LET nd == g[CHOOSE id \in DOMAIN g : g[id].layer = ly]
  IN  CASE nd.op = "Convolution1D" -> <<WORD_DEPTH, K>>
        [] nd.op = "Dense" -> <<K, L>>
        [] nd.op = "Gamma" -> <<1, 1>>

\* A freshly initialised tensor pair: a random kernel, a zero bias.
NewTensor(shape, draw) ==
  [W |-> MkSeq(LAMBDA d : MkSeq(LAMBDA k : ((draw + d + 2 * k) % 3) - 1, shape[2]), shape[1]),
   b |-> MkSeq(LAMBDA k : 0, shape[2])]

\* Every layer draws its own kernel: the draw of layer ly, given the draw of
\* the first.
LayerDraw(ly, draw) == IF ly[1] \in {"query_conv", "query_sem"} THEN draw + 1 ELSE draw + ly[2]

\* The tensors every layer of g gets at construction.
NewWeights(g, draw) ==
  [ly \in LayersOf(g) |-> NewTensor(ShapeOf(g, ly), LayerDraw(ly, draw))]

\* One optimizer step on one tensor pair, in place: every entry moves by one
\* unit, neighbouring kernel entries in opposite directions.
StepTensor(wt, s) ==
  [W |-> MkSeq(LAMBDA d : MkSeq(LAMBDA k : Clamp(wt.W[d][k] + (IF (d + k) % 2 = 0 THEN s ELSE 0 - s),
                                                 WMax),
                                Len(wt.W[d])),
               Len(wt.W)),
   b |-> MkSeq(LAMBDA k : Clamp(wt.b[k] + s, WMax), Len(wt.b))]

\* model.fit's parameter update: every trainable tensor of the model.
Update(w, s) == [ly \in DOMAIN w |-> StepTensor(w[ly], s)]


----------------------------------------------------------------------------
(* The script.                                                             *)

\* Outcomes of random.randint(1, 10) and random.randint(50, 500) for the
\* lengths, and of np.random.rand for the contents of the n-th array drawn
\* (a pattern number).
QueryLens == {1}
DocLens == {MaxT}
Patterns(n) == {n % 3}

\* np.random.rand(1, T, WORD_DEPTH): T word vectors of WORD_DEPTH entries.
Rand(T, a) ==
  MkSeq(LAMBDA t : MkSeq(LAMBDA d : ((a + 1) * t + d + (a \div 2)) % 2, WORD_DEPTH), T)

\* A numpy array: the object's identity and its contents.
Array(id, data) == [id |-> id, data |-> data]

Datas(arrays) == MkSeq(LAMBDA n : arrays[n].data, Len(arrays))
Ids(arrays) == MkSeq(LAMBDA n : arrays[n].id, Len(arrays))

\* list(range(n))
Range(n) == [m \in 1..n |-> m - 1]

\* list.remove(x): the list without its first occurrence of x.
Remove(lst, x) ==
  LET at == CHOOSE m \in 1..Len(lst) : lst[m] = x /\ \A q \in 1..(m - 1) : lst[q] # x
  IN  [m \in 1..(Len(lst) - 1) |-> IF m < at THEN lst[m] ELSE lst[m + 1]]

\* Faulty variant of Possibilities: the example's own index is not removed.
Possibilities_all(n) == Range(sample_size)

\* possibilities = list(range(sample_size)); possibilities.remove(i)
Possibilities(n) == Remove(Range(sample_size), n)

\* The outcomes of random.sample(population, k): k entries at pairwise
\* distinct positions, in any order.
Samples(population, k) ==
  {[m \in 1..k |-> population[p[m]]] :
     p \in {q \in [1..k -> 1..Len(population)] :
              \A m, n \in 1..k : m # n => q[m] # q[n]}}

Empty == <<>>

Init ==
  /\ pc = "build"
  /\ graph = Empty
  /\ weights = Empty
  /\ created = Empty
  /\ nb_updates = 0
  /\ l_Qs = <<>>
  /\ pos_l_Ds = <<>>
  /\ neg_l_Ds = <<>>
  /\ i = 0
  /\ calls = <<>>
  /\ history = Empty
  /\ returned = <<>>
  /\ feed = Empty
  /\ feed2 = Empty
  /\ run = Empty
  /\ run2 = Empty

\* Lines 40-112: the graph is built, every layer creates its tensors, the
\* model is compiled.
Build ==
  /\ pc = "build"
  /\ \E draw \in InitDraws :
       /\ graph' = Graph
       /\ weights' = NewWeights(Graph, draw)
  /\ created' = [ly \in LayersOf(Graph) |-> 1]
  /\ pc' = "gen_data"
  /\ UNCHANGED <<nb_updates, l_Qs, pos_l_Ds, neg_l_Ds, i, calls, history, returned,
                 feed, feed2, run, run2>>

\* Lines 119-126: one iteration of the loop that builds l_Qs and pos_l_Ds.
GenExample ==
  /\ pc = "gen_data"
  /\ i < sample_size
  /\ \E query_len \in QueryLens, doc_len \in DocLens,
        a \in Patterns(2 * i), b \in Patterns(2 * i + 1) :
       /\ l_Qs' = Append(l_Qs, Array(<<"l_Q", i>>, Rand(query_len, a)))
       /\ pos_l_Ds' = Append(pos_l_Ds, Array(<<"l_D", i>>, Rand(doc_len, b)))
  /\ i' = IF i + 1 = sample_size THEN 0 ELSE i + 1
  /\ pc' = IF i + 1 = sample_size THEN "gen_neg" ELSE "gen_data"
  /\ UNCHANGED <<graph, weights, created, nb_updates, neg_l_Ds, calls, history,
                 returned, feed, feed2, run, run2>>

\* Lines 129-133: one iteration of the loop that builds neg_l_Ds.
\* random.sample raises ValueError when J > len(possibilities).
GenNegatives ==
  /\ pc = "gen_neg"
  /\ i < sample_size
  /\ LET possibilities == Possibilities(i)
     IN  IF J > Len(possibilities)
         THEN /\ pc' = "ValueError"
              /\ UNCHANGED <<neg_l_Ds, i>>
         ELSE /\ \E negatives \in Samples(possibilities, J) :
                   neg_l_Ds' = Append(neg_l_Ds,
                                      [m \in 1..J |-> pos_l_Ds[negatives[m] + 1]])
              /\ i' = IF i + 1 = sample_size THEN 0 ELSE i + 1
              /\ pc' = IF i + 1 = sample_size THEN "train" ELSE "gen_neg"
  /\ UNCHANGED <<graph, weights, created, nb_updates, l_Qs, pos_l_Ds, calls,
                 history, returned, feed, feed2, run, run2>>

\* Faulty variant of FitInputs: the loop index is not used, every call gets
\* example 0.
FitInputs_first(n) == <<l_Qs[1], pos_l_Ds[1]>> \o neg_l_Ds[1]

\* The first argument of model.fit for example n (0-based):
\* [l_Qs[i], pos_l_Ds[i]] + neg_l_Ds[i].
FitInputs(n) == <<l_Qs[n + 1], pos_l_Ds[n + 1]>> \o neg_l_Ds[n + 1]

\* y = np.ones(1)
y == 1

\* Line 141: history = model.fit(...) on example i with the target y: one
\* forward pass (its probability stands for the loss kept in history), then
\* one optimizer step on every trainable tensor.
Fit ==
  /\ pc = "train"
  /\ i < sample_size
  /\ LET inputs == FitInputs(i)
         fd == FeedOf(ModelInputs, Datas(inputs))
     IN  /\ history' = Forward(graph, weights, fd)[<<"prob", 0>>]
         /\ calls' = Append(calls, [fn |-> "fit", inputs |-> Ids(inputs), y |-> y])
  /\ \E s \in OptimizerSteps : weights' = Update(weights, s)
  /\ nb_updates' = nb_updates + 1
  /\ i' = IF i + 1 = sample_size THEN 0 ELSE i + 1
  /\ pc' = IF i + 1 = sample_size THEN "get_R_Q_D_p" ELSE "train"
  /\ UNCHANGED <<graph, created, l_Qs, pos_l_Ds, neg_l_Ds, returned,
                 feed, feed2, run, run2>>

\* The parameter updates a compiled backend.function carries: none is given
\* at lines 151 and 156, so a call leaves the tensors as they are.
\* Faulty variant of get_R_Q_D_p_updates: the function is compiled with the
\* optimizer's updates, as the training function is.
get_R_Q_D_p_training(w) == Update(w, 1)
get_R_Q_D_p_updates(w) == w
\* Faulty variant of get_R_Q_D_ns_updates, likewise.
get_R_Q_D_ns_training(w) == Update(w, 0 - 1)
get_R_Q_D_ns_updates(w) == w

\* get_R_Q_D_p = backend.function([query, pos_doc], R_Q_D_p), line 151,
\* called on the arrays inputs.
get_R_Q_D_p(inputs) ==
  LET fd == FeedOf(<< <<"query", 0>>, <<"pos_doc", 0>> >>, Datas(inputs))
      vals == EvalSubgraph(graph, weights, fd, {<<"R_Q_D_p", 0>>})
  IN  /\ calls' = Append(calls, [fn |-> "get_R_Q_D_p", inputs |-> Ids(inputs), y |-> 0])
      /\ returned' = Append(returned, vals[<<"R_Q_D_p", 0>>])
      /\ weights' = get_R_Q_D_p_updates(weights)

\* get_R_Q_D_ns = backend.function([query] + neg_docs, R_Q_D_ns), line 156,
\* called on the arrays inputs.
get_R_Q_D_ns(inputs) ==
  LET fd == FeedOf(<< <<"query", 0>> >> \o ListIds("neg_docs"), Datas(inputs))
      vals == EvalSubgraph(graph, weights, fd, {<<"R_Q_D_ns", j>> : j \in 1..J})
  IN  /\ calls' = Append(calls, [fn |-> "get_R_Q_D_ns", inputs |-> Ids(inputs), y |-> 0])
      /\ returned' = Append(returned, MkSeq(LAMBDA j : vals[<<"R_Q_D_ns", j>>], J))
      /\ weights' = get_R_Q_D_ns_updates(weights)

\* Line 152: get_R_Q_D_p([l_Qs[0], pos_l_Ds[0]])
GetRQDp ==
  /\ pc = "get_R_Q_D_p"
  /\ get_R_Q_D_p(<<l_Qs[1], pos_l_Ds[1]>>)
  /\ pc' = "get_R_Q_D_ns"
  /\ UNCHANGED <<graph, created, nb_updates, l_Qs, pos_l_Ds, neg_l_Ds, i, history,
                 feed, feed2, run, run2>>

\* Line 157: get_R_Q_D_ns([l_Qs[0]] + neg_l_Ds[0])
GetRQDns ==
  /\ pc = "get_R_Q_D_ns"
  /\ get_R_Q_D_ns(<<l_Qs[1]>> \o neg_l_Ds[1])
  /\ pc' = "done"
  /\ UNCHANGED <<graph, created, nb_updates, l_Qs, pos_l_Ds, neg_l_Ds, i, history,
                 feed, feed2, run, run2>>

Next == Build \/ GenExample \/ GenNegatives \/ Fit \/ GetRQDp \/ GetRQDns

Spec == Init /\ [][Next]_vars


----------------------------------------------------------------------------
(* Forward passes on drawn inputs: the model's function from the arrays of *)
(* a ranking instance to the value of every node, applied to one feed and  *)
(* then to a second feed that differs from the first in a known way.       *)

\* The sequences fed: one of every length 1..MaxT, and a second of length 1.
SeqList == MkSeq(LAMBDA T : Rand(T, T), MaxT) \o <<Rand(1, 0)>>
Seqs == {SeqList[n] : n \in 1..Len(SeqList)}

\* The sequence after sq in SeqList, cyclically.
NextSeq(sq) ==
  LET n == CHOOSE m \in 1..Len(SeqList) : SeqList[m] = sq
  IN  SeqList[(n % Len(SeqList)) + 1]

InputIds == {ModelInputs[n] : n \in 1..Len(ModelInputs)}
Feeds == [InputIds -> Seqs]

\* Weights after one optimizer step, either way.
WeightChoices ==
  {Update(NewWeights(Graph, draw), s) : draw \in InitDraws, s \in OptimizerSteps}

\* The permutations of 1..J.
Perms == {p \in [1..J -> 1..J] : \A m, n \in 1..J : m # n => p[m] # p[n]}

\* The feed fd with its negative documents in the order p.
PermuteFeed(fd, p) ==
  [id \in DOMAIN fd |-> IF id[1] = "neg_docs" THEN fd[<<"neg_docs", p[id[2]]>>] ELSE fd[id]]

InitFwd ==
  /\ pc = "ready"
  /\ graph = Graph
  /\ weights \in WeightChoices
  /\ created = [ly \in LayersOf(Graph) |-> 1]
  /\ nb_updates = 1
  /\ l_Qs = <<>>
  /\ pos_l_Ds = <<>>
  /\ neg_l_Ds = <<>>
  /\ i = 0
  /\ calls = <<>>
  /\ history = Empty
  /\ returned = <<>>
  /\ feed \in Feeds
  /\ feed2 = Empty
  /\ run = Empty
  /\ run2 = Empty

\* The forward pass of model on feed.
ForwardPass ==
  /\ pc = "ready"
  /\ run' = Forward(graph, weights, feed)
  /\ pc' = "forward"
  /\ UNCHANGED <<graph, weights, created, nb_updates, l_Qs, pos_l_Ds, neg_l_Ds, i,
                 calls, history, returned, feed, feed2, run2>>

\* A second forward pass, on the same arrays with the negatives permuted.
ForwardPermuted ==
  /\ pc = "forward"
  /\ \E p \in Perms : feed2' = PermuteFeed(feed, p)
  /\ run2' = Forward(graph, weights, feed2')
  /\ pc' = "permuted"
  /\ UNCHANGED <<graph, weights, created, nb_updates, l_Qs, pos_l_Ds, neg_l_Ds, i,
                 calls, history, returned, feed, run>>

\* A second forward pass, on the same arrays but for one that is replaced.
ForwardReplaced ==
  /\ pc = "forward"
  /\ \E id \in InputIds : feed2' = [feed EXCEPT ![id] = NextSeq(@)]
  /\ run2' = Forward(graph, weights, feed2')
  /\ pc' = "replaced"
  /\ UNCHANGED <<graph, weights, created, nb_updates, l_Qs, pos_l_Ds, neg_l_Ds, i,
                 calls, history, returned, feed, run>>

NextFwd == ForwardPass \/ ForwardPermuted \/ ForwardReplaced

SpecFwd == InitFwd /\ [][NextFwd]_vars

----------------------------------------------------------------------------
(* The ranking head on drawn rescaled scores: lines 104-108 applied to a   *)
(* with_gamma tensor of J + 1 entries.                                     *)

Scores == [1..(J + 1) -> (0 - ZMax)..ZMax]

InitHead ==
  /\ pc = "head"
  /\ graph = Graph
  /\ weights \in WeightChoices
  /\ created = [ly \in LayersOf(Graph) |-> 1]
  /\ nb_updates = 1
  /\ l_Qs = <<>>
  /\ pos_l_Ds = <<>>
  /\ neg_l_Ds = <<>>
  /\ i = 0
  /\ calls = <<>>
  /\ history = Empty
  /\ returned = <<>>
  /\ feed \in {(<<"with_gamma", 0>> :> zs) : zs \in Scores}
  /\ feed2 = Empty
  /\ run = Empty
  /\ run2 = Empty

\* exponentiated and prob evaluated from the given with_gamma tensor.
RankingHead ==
  /\ pc = "head"
  /\ run' = EvalFrom(graph, weights, feed,
                     << <<"exponentiated", 0>>, <<"prob", 0>> >>, 1, feed)
  /\ pc' = "head_done"
  /\ UNCHANGED <<graph, weights, created, nb_updates, l_Qs, pos_l_Ds, neg_l_Ds, i,
                 calls, history, returned, feed, feed2, run2>>

NextHead == RankingHead

SpecHead == InitHead /\ [][NextHead]_vars

----------------------------------------------------------------------------
(* The inference functions called repeatedly on a trained model.           *)

\* A data set as lines 114-133 build it: the negatives of example n are the
\* positive documents of the J examples after it, cyclically.
SomeQs == MkSeq(LAMBDA n : Array(<<"l_Q", n - 1>>, Rand(1, n)), sample_size)
SomePosDs == MkSeq(LAMBDA n : Array(<<"l_D", n - 1>>, Rand(MaxT, n + 1)), sample_size)
SomeNegDs ==
  MkSeq(LAMBDA n : MkSeq(LAMBDA m : SomePosDs[((n - 1 + m) % sample_size) + 1], J),
        sample_size)

\* The examples the functions are called on.
InferExamples == {1, 2}

InitInfer ==
  /\ pc = "infer"
  /\ graph = Graph
  /\ weights \in WeightChoices
  /\ created = [ly \in LayersOf(Graph) |-> 1]
  /\ nb_updates = 1
  /\ l_Qs = SomeQs
  /\ pos_l_Ds = SomePosDs
  /\ neg_l_Ds = SomeNegDs
  /\ i = 0
  /\ calls = <<>>
  /\ history = Empty
  /\ returned = <<>>
  /\ feed = Empty
  /\ feed2 = Empty
  /\ run = Empty
  /\ run2 = Empty

\* One more call get_R_Q_D_p([l_Qs[e], pos_l_Ds[e]]).
InferRQDp ==
  /\ pc = "infer"
  /\ Len(calls) < MaxCalls
  /\ \E e \in InferExamples : get_R_Q_D_p(<<l_Qs[e], pos_l_Ds[e]>>)
  /\ UNCHANGED <<pc, graph, created, nb_updates, l_Qs, pos_l_Ds, neg_l_Ds, i, history,
                 feed, feed2, run, run2>>

\* One more call get_R_Q_D_ns([l_Qs[e]] + neg_l_Ds[e]).
InferRQDns ==
  /\ pc = "infer"
  /\ Len(calls) < MaxCalls
  /\ \E e \in InferExamples : get_R_Q_D_ns(<<l_Qs[e]>> \o neg_l_Ds[e])
  /\ UNCHANGED <<pc, graph, created, nb_updates, l_Qs, pos_l_Ds, neg_l_Ds, i, history,
                 feed, feed2, run, run2>>

NextInfer == InferRQDp \/ InferRQDns

SpecInfer == InitInfer /\ [][NextInfer]_vars

----------------------------------------------------------------------------
(* Properties of the script (specification Spec).                          *)

\* The nodes that apply a layer to the positive document and to the
\* negative documents.
DocConvNodes == {<<"pos_doc_conv", 0>>} \cup {<<"neg_doc_convs", j>> : j \in 1..J}
DocSemNodes == {<<"pos_doc_sem", 0>>} \cup {<<"neg_doc_sems", j>> : j \in 1..J}

\* C1 (weight tying): once the model is built, and after any number of
\* training steps, the 1 + J convolution nodes of the document branch use one
\* and the same layer instance, and so do the 1 + J projection nodes; every
\* one of them therefore reads the same tensors, whatever the optimizer did;
\* the query branch's two layer instances are other instances than the
\* document branch's, and each instance owns exactly one pair of tensors.
C1_WeightTying ==
  pc # "build" =>
    /\ \A a, b \in DocConvNodes :
         /\ graph[a].layer = graph[b].layer
         /\ weights[graph[a].layer] = weights[graph[b].layer]
    /\ \A a, b \in DocSemNodes :
         /\ graph[a].layer = graph[b].layer
         /\ weights[graph[a].layer] = weights[graph[b].layer]
    /\ \A a \in DocConvNodes \cup DocSemNodes :
         /\ graph[a].layer # graph[<<"query_conv", 0>>].layer
         /\ graph[a].layer # graph[<<"query_sem", 0>>].layer
    /\ graph[<<"query_conv", 0>>].layer # graph[<<"query_sem", 0>>].layer
    /\ Cardinality({graph[a].layer : a \in DocConvNodes \cup DocSemNodes}) = 2
    /\ DOMAIN weights = LayersOf(graph)

\* Training has run to its end and has changed the document convolution.
C1_Witness ==
  /\ pc = "get_R_Q_D_p"
  /\ nb_updates = sample_size
  /\ \E draw \in InitDraws :
       weights[graph[<<"pos_doc_conv", 0>>].layer] # NewWeights(Graph, draw)[doc_conv]
  /\ weights[graph[<<"neg_doc_convs", J>>].layer] # weights[graph[<<"query_conv", 0>>].layer]

\* The log entries of the training calls.
FitCalls == SelectSeq(calls, LAMBDA c : c.fn = "fit")

\* C5 (training sequencing): the calls made so far are a prefix of: one fit
\* per example in index order, given that example's query, its positive
\* document, its J negative documents and the label 1, then the two
\* inference calls; every fit has finished its one parameter update before
\* the next call is made, and no inference call is made before all
\* sample_size fits are.
C5_TrainingSequence ==
  /\ Len(calls) <= sample_size + 2
  /\ nb_updates = Len(FitCalls)
  /\ \A n \in 1..Len(calls) :
       IF n <= sample_size
       THEN /\ calls[n].fn = "fit"
            /\ Len(calls[n].inputs) = J + 2
            /\ calls[n].inputs[1] = l_Qs[n].id
            /\ calls[n].inputs[1] = <<"l_Q", n - 1>>
            /\ calls[n].inputs[2] = pos_l_Ds[n].id
            /\ calls[n].inputs[2] = <<"l_D", n - 1>>
            /\ \A m \in 1..J : calls[n].inputs[2 + m] = neg_l_Ds[n][m].id
            /\ calls[n].y = 1
       ELSE /\ calls[n].fn = (IF n = sample_size + 1 THEN "get_R_Q_D_p" ELSE "get_R_Q_D_ns")
            /\ nb_updates = sample_size
  /\ pc \in {"get_R_Q_D_p", "get_R_Q_D_ns", "done"} => Len(FitCalls) = sample_size
  /\ pc = "train" => Len(calls) = i
  /\ pc = "done" => Len(calls) = sample_size + 2

\* The script has run to its end: all fits, then both inference calls.
C5_Witness ==
  /\ pc = "done"
  /\ Len(FitCalls) = sample_size
  /\ calls[sample_size].inputs[1] = <<"l_Q", sample_size - 1>>
  /\ calls[sample_size + 2].fn = "get_R_Q_D_ns"

\* C9 (weight lifecycle and frame): every layer's tensors are created exactly
\* once, by the construction step; no later step creates or replaces any;
\* only the construction step and a training call change a tensor; a call
\* of either inference function leaves every tensor as it was.
C9_WeightFrame ==
  /\ [](pc # "build" => /\ DOMAIN created = LayersOf(Graph)
                        /\ DOMAIN weights = DOMAIN created
                        /\ \A ly \in DOMAIN created : created[ly] = 1)
  /\ [][/\ created' # created => pc = "build"
        /\ DOMAIN weights' # DOMAIN weights => pc = "build"
        /\ weights' # weights => pc \in {"build", "train"}
        /\ pc \in {"get_R_Q_D_p", "get_R_Q_D_ns"} => weights' = weights]_vars

\* Both inference calls have been made on a model that training has changed.
C9_Witness ==
  /\ pc = "done"
  /\ Len(returned) = 2
  /\ nb_updates = sample_size
  /\ \A draw \in InitDraws : \A ly \in DOMAIN weights :
       weights[ly] # NewWeights(Graph, draw)[ly]

\* C10 (negative sampling): when sample_size - 1 >= J the sampling never
\* fails, and every list of negatives built so far has exactly J entries,
\* each the positive document of another example than its own, no two of
\* them of the same example; every training call is handed 1 + J documents.
C10_NegativeSampling ==
  sample_size - 1 >= J =>
    /\ pc # "ValueError"
    /\ \A n \in 1..Len(neg_l_Ds) :
         /\ Len(neg_l_Ds[n]) = J
         /\ \A m \in 1..J :
              \E k \in 1..sample_size :
                /\ k # n
                /\ neg_l_Ds[n][m] = pos_l_Ds[k]
                /\ neg_l_Ds[n][m].id = <<"l_D", k - 1>>
         /\ \A m, q \in 1..J : m # q => neg_l_Ds[n][m].id # neg_l_Ds[n][q].id
    /\ pc \in {"train", "get_R_Q_D_p", "get_R_Q_D_ns", "done"} =>
         Len(neg_l_Ds) = sample_size
    /\ \A n \in 1..Len(calls) :
         calls[n].fn = "fit" => Len(calls[n].inputs) - 1 = 1 + J

\* All lists of negatives are built and the first has been used in training.
C10_Witness ==
  /\ sample_size - 1 >= J
  /\ pc = "train"
  /\ Len(neg_l_Ds) = sample_size
  /\ Len(calls) = 1
  /\ neg_l_Ds[1][1].id # neg_l_Ds[sample_size][1].id

----------------------------------------------------------------------------
(* Properties of the ranking head (specification SpecHead).                *)

\* C2 (ranking head): for every tensor of J + 1 exponentiated scores that are
\* all strictly positive, the probability reported is the fraction of the
\* entry at index 0 (the positive document's) over the sum of all J + 1
\* entries, and it lies strictly between 0 and 1.
C2_RankingHead ==
  pc = "head_done" =>
    LET es == run[<<"exponentiated", 0>>]
        p  == run[<<"prob", 0>>]
    IN  /\ Len(es) = J + 1
        /\ (\A t \in 1..(J + 1) : es[t] # NaN /\ es[t] > 0) =>
             /\ p.num # NaN /\ p.den # NaN
             /\ p.den > 0
             /\ p.num * SumTo(es, J + 1) = es[1] * p.den
             /\ 0 < p.num
             /\ p.num < p.den

\* Strictly positive scores, the positive document's neither the largest nor
\* the smallest of them.
C2_Witness ==
  /\ pc = "head_done"
  /\ \A t \in 1..(J + 1) : run[<<"exponentiated", 0>>][t] > 0
  /\ \E t, u \in 2..(J + 1) :
       /\ run[<<"exponentiated", 0>>][t] < run[<<"exponentiated", 0>>][1]
       /\ run[<<"exponentiated", 0>>][1] < run[<<"exponentiated", 0>>][u]
  /\ run[<<"prob", 0>>].num < run[<<"prob", 0>>].den

----------------------------------------------------------------------------
(* Properties of the forward pass (specification SpecFwd).                 *)

\* C3 (order sensitivity): when a second forward pass is given the same
\* arrays with the negative documents permuted by p, under the same weights,
\* its j-th negative similarity is the first pass's p[j]-th, the positive
\* similarity is the same, the concatenation holds the positive similarity
\* first and the negatives' in the order given, and the probability is the
\* same.
C3_OrderSensitivity ==
  pc = "permuted" =>
    \A p \in Perms :
      feed2 = PermuteFeed(feed, p) =>
        /\ \A j \in 1..J : run2[<<"R_Q_D_ns", j>>] = run[<<"R_Q_D_ns", p[j]>>]
        /\ run2[<<"R_Q_D_p", 0>>] = run[<<"R_Q_D_p", 0>>]
        /\ run2[<<"concat_Rs", 0>>] =
             <<run[<<"R_Q_D_p", 0>>]>> \o MkSeq(LAMBDA j : run[<<"R_Q_D_ns", p[j]>>], J)
        /\ run2[<<"prob", 0>>] = run[<<"prob", 0>>]

\* A permutation that moves two negatives of different similarity, with a
\* probability that is a number.
C3_Witness ==
  /\ pc = "permuted"
  /\ feed2 # feed
  /\ run2[<<"R_Q_D_ns", 1>>] # run[<<"R_Q_D_ns", 1>>]
  /\ run[<<"R_Q_D_ns", 1>>] # run[<<"R_Q_D_p", 0>>]
  /\ run[<<"prob", 0>>].num # NaN
  /\ run2[<<"prob", 0>>] = run[<<"prob", 0>>]

\* The (convolution, pooling, projection, input) nodes of every branch.
Branches ==
  {<< <<"query_conv", 0>>, <<"query_max", 0>>, <<"query_sem", 0>>, <<"query", 0>> >>,
   << <<"pos_doc_conv", 0>>, <<"pos_doc_max", 0>>, <<"pos_doc_sem", 0>>, <<"pos_doc", 0>> >>}
  \cup {<< <<"neg_doc_convs", j>>, <<"neg_doc_maxes", j>>, <<"neg_doc_sems", j>>,
           <<"neg_docs", j>> >> : j \in 1..J}

\* C4 (max-pooling over time): in every branch, for an input of T >= 1 steps
\* the convolved sequence has T steps of width K, the pooled value is one
\* vector of width K whose k-th entry is the largest k-th entry of the T
\* steps, for T = 1 it is the one step's vector, and the semantic vector has
\* width L whatever T is.
C4_MaxOverTime ==
  pc # "ready" =>
    \A br \in Branches :
      LET h == run[br[1]]
          v == run[br[2]]
          T == Len(feed[br[4]])
      IN  /\ T >= 1
          /\ Len(h) = T
          /\ \A t \in 1..T : Len(h[t]) = K
          /\ Len(v) = K
          /\ \A k \in 1..K :
               /\ \A t \in 1..T : h[t][k] <= v[k]
               /\ \E t \in 1..T : h[t][k] = v[k]
          /\ T = 1 => v = h[1]
          /\ Len(run[br[3]]) = L

\* A document of MaxT > 1 steps whose pooled vector is none of its steps'
\* vectors, next to a query of one step.
C4_Witness ==
  /\ pc = "forward"
  /\ Len(feed[<<"pos_doc", 0>>]) = MaxT
  /\ \A t \in 1..MaxT : run[<<"pos_doc_max", 0>>] # run[<<"pos_doc_conv", 0>>][t]
  /\ Len(feed[<<"query", 0>>]) = 1
  /\ run[<<"query_max", 0>>] = run[<<"query_conv", 0>>][1]

\* C7 (input independence): of two forward passes under the same weights,
\* if the feeds agree on the query and the positive document the positive
\* similarity is the same, and if they agree on the query and the j-th
\* negative document the j-th negative similarity is the same; the positive
\* similarity needs no other placeholder than query and pos_doc, the
\* negative similarities none but query and neg_docs.
C7_InputIndependence ==
  /\ pc = "replaced" =>
       /\ (/\ feed2[<<"query", 0>>] = feed[<<"query", 0>>]
           /\ feed2[<<"pos_doc", 0>>] = feed[<<"pos_doc", 0>>])
            => run2[<<"R_Q_D_p", 0>>] = run[<<"R_Q_D_p", 0>>]
       /\ \A j \in 1..J :
            (/\ feed2[<<"query", 0>>] = feed[<<"query", 0>>]
             /\ feed2[<<"neg_docs", j>>] = feed[<<"neg_docs", j>>])
              => run2[<<"R_Q_D_ns", j>>] = run[<<"R_Q_D_ns", j>>]
  /\ pc # "ready" =>
       /\ InputsNeeded(graph, {<<"R_Q_D_p", 0>>}) = {<<"query", 0>>, <<"pos_doc", 0>>}
       /\ \A j \in 1..J :
            InputsNeeded(graph, {<<"R_Q_D_ns", j>>}) = {<<"query", 0>>, <<"neg_docs", j>>}

\* The first negative document was replaced: its similarity changed, the
\* positive similarity and the other negatives' did not.
C7_Witness ==
  /\ pc = "replaced"
  /\ feed2[<<"neg_docs", 1>>] # feed[<<"neg_docs", 1>>]
  /\ run2[<<"R_Q_D_ns", 1>>] # run[<<"R_Q_D_ns", 1>>]
  /\ run2[<<"R_Q_D_p", 0>>] = run[<<"R_Q_D_p", 0>>]
  /\ run2[<<"R_Q_D_ns", J>>] = run[<<"R_Q_D_ns", J>>]
  /\ run[<<"R_Q_D_p", 0>>] # NaN
  /\ run[<<"R_Q_D_p", 0>>] # run[<<"R_Q_D_ns", 1>>]

----------------------------------------------------------------------------
(* Properties of the inference functions (specification SpecInfer).        *)

\* The contents of the array with identity id.
DataOf(id) == IF id[1] = "l_Q" THEN l_Qs[id[2] + 1].data ELSE pos_l_Ds[id[2] + 1].data

\* The contents of the arrays call number n was given.
CallData(n) == MkSeq(LAMBDA m : DataOf(calls[n].inputs[m]), Len(calls[n].inputs))

\* C6 (inference determinism): any two calls of the same inference function
\* on arrays of identical contents have returned identical values, whatever
\* calls were made in between; the weights are those the calls started with.
C6_InferenceDeterminism ==
  pc = "infer" =>
    /\ Len(returned) = Len(calls)
    /\ \A m, n \in 1..Len(calls) :
         (calls[m].fn = calls[n].fn /\ CallData(m) = CallData(n))
           => returned[m] = returned[n]

\* The same call made first and last, a call of the other function between.
C6_Witness ==
  /\ pc = "infer"
  /\ Len(calls) = MaxCalls
  /\ calls[1] = calls[MaxCalls]
  /\ calls[1].fn = "get_R_Q_D_p"
  /\ calls[2].fn = "get_R_Q_D_ns"
  /\ returned[1] # NaN
  /\ returned[1] = returned[MaxCalls]

=============================================================================
